---- MODULE Spec2Model ----
(***************************************************************************)
(* A model of the SpyderX colorimeter driver (spyderx.py) and of the LUT   *)
(* scan that drives it (generate_lut.py).                                  *)
(*                                                                         *)
(* The session object is the pair (dev, spyderData) of class SpyderX.      *)
(* spyderData is a Python dict: it is modelled as a function whose DOMAIN  *)
(* is the set of keys present, so that a missing key (KeyError, or the     *)
(* default of dict.get) is distinguished from a stored False.              *)
(*                                                                         *)
(* Every USB transfer can raise usb.core.USBError; the step that fails is  *)
(* an input of the operation (failAt).  Frames the device answers with are *)
(* assumed to have the requested size, and usb.util.dispose_resources is   *)
(* assumed not to raise.                                                   *)
(***************************************************************************)
EXTENDS Integers, Sequences, FiniteSets, TLC

VARIABLES
    dev,            \* SpyderX.dev: None or the handle usb.core.find returned
    spyderData,     \* SpyderX.spyderData: the dict of session fields
    io,             \* the USB traffic of the last operation, in order
    ret,            \* the last operation and what it returned or raised
    prev,           \* history: ret of the operation before the last one
    calibrateCalled,\* history: calibrate() has been called at least once
    afterClose,     \* history: close() was called and no initialize()/calibrate() since
    sessionCal,     \* history: calibrate() completed since the last successful
                    \* initialize(), with no close() since
    blackRef,       \* history: the counts the last completed calibrate() read, and
                    \* the s3 it subtracted from them
    pc,             \* generate_lut.py: position of the script
    resolution,     \* generate_lut.py: the resolution argument
    rgb,            \* generate_lut.py: the loop indices <<r, g, b>>
    lut,            \* generate_lut.py: the dict lut
    current_color,  \* generate_lut.py: the progress counter
    screen,         \* generate_lut.py: the colour last passed to screen.fill
    events,         \* pygame's event queue: a QUIT event is pending
    quitAt,         \* history: number of samples stored when QUIT was raised, -1 if never
    quitPc,         \* history: where the script was when QUIT was raised, "" if never
    measureCalls,   \* history: number of measure() calls made by generate_lut
    result,         \* how generate_lut ended and the value it returned: <<>> for None
                    \* (and while it runs), <<lut>> for the dict
    saved,          \* what save_lut was given: <<>> if never called, else <<lut>>
    black,          \* the sensor's dark counts during this run (environment)
    ready,          \* history: wait_for_enter has returned True
    calibrateCalls  \* history: number of calibrate() calls made by generate_lut

sessionVars == <<dev, spyderData, io, ret, prev, calibrateCalled, afterClose, sessionCal,
                 blackRef>>
driverVars == <<pc, resolution, rgb, lut, current_color, screen, events, quitAt, quitPc,
                measureCalls, result, saved, black, ready, calibrateCalls>>
vars == <<sessionVars, driverVars>>

----------------------------------------------------------------------------
(* Bounds of the model *)

MaxRes == 3

----------------------------------------------------------------------------
(* Python values *)

None == "None"
Device == "Device"

EmptyDict == [k \in {} |-> FALSE]
Put(d, k, v) == [x \in DOMAIN d \cup {k} |-> IF x = k THEN v ELSE d[x]]
Get(d, k, default) == IF k \in DOMAIN d THEN d[k] ELSE default

\* raw, adj: the counts read from the measurement frame and, for measure(), the
\* adjusted vector it prints (lines 166 and 170); <<>> when there are none
Return(op, val, xyz) ==
    [op |-> op, exc |-> "none", val |-> val, xyz |-> xyz, raw |-> <<>>, adj |-> <<>>]
Raise(op, exc) ==
    [op |-> op, exc |-> exc, val |-> "none", xyz |-> <<>>, raw |-> <<>>, adj |-> <<>>]

NotInitialized == "ValueError: SpyderX not initialized"
NotCalibrated == "ValueError: Black calibration not performed"
USBError == "usb.core.USBError"
AttributeError == "AttributeError: 'NoneType' object has no attribute 'ctrl_transfer'"
KeyError == "KeyError"

----------------------------------------------------------------------------
(* USB traffic *)

control_transfer(bmRequestType, bRequest, wValue, wIndex) ==
    [kind |-> "ctrl", data |-> <<bmRequestType, bRequest, wValue, wIndex>>, size |-> 0]

bulk_transfer(cmd, outSize) == [kind |-> "bulk", data |-> cmd, size |-> outSize]

dispose_resources == [kind |-> "dispose", data |-> <<>>, size |-> 0]

\* 0x41, 2, 2, 0
Wake == control_transfer(65, 2, 2, 0)

----------------------------------------------------------------------------
(* What the device answers (environment) *)

I3 == <<<<1, 0, 0>>, <<0, 1, 0>>, <<0, 0, 1>>>>

\* Python's s[i] and s[a:b] on a sequence (0-based, b exclusive)
PyAt(s, i) == s[i + 1]
PySlice(s, a, b) == SubSeq(s, a + 1, b)

\* The four bytes the device sends for the floats 0.0, 1.0, 2.0 and 4.0
\* (IEEE 754 single precision, least significant byte first)
F0 == <<0, 0, 0, 0>>
F1 == <<0, 0, 128, 63>>
F2 == <<0, 0, 0, 64>>
F4 == <<0, 0, 128, 64>>

\* A 47-byte factory calibration frame: 5 header bytes, one byte, v1, v2 (big
\* endian), nine floats, v3, one byte.
FactoryFrame(v1, v2, v3, floats) ==
    <<203, 5, 115, 0, 36>> \o <<9, v1, v2 \div 256, v2 % 256>>
    \o floats[1] \o floats[2] \o floats[3] \o floats[4] \o floats[5]
    \o floats[6] \o floats[7] \o floats[8] \o floats[9] \o <<v3, 8>>

FactoryFrames ==
    { FactoryFrame(3, 258, 0, <<F1, F0, F0, F0, F1, F0, F0, F0, F1>>),
      FactoryFrame(7, 513, 1, <<F2, F0, F0, F1, F1, F0, F0, F0, F4>>) }

\* The fields of the 15-byte setup frame.
SetupFrames ==
    { [s1 |-> 1, s2 |-> <<1, 2, 3, 4>>, s3 |-> <<10, 20, 15, 0>>],
      [s1 |-> 2, s2 |-> <<5, 6, 7, 8>>, s3 |-> <<255, 255, 255, 255>>] }

\* The four 16-bit counts of a 13-byte measurement frame.
RawFrames == { <<15, 25, 20, 1>>, <<100, 200, 150, 0>>, <<0, 65535, 300, 7>> }

----------------------------------------------------------------------------
(* class SpyderX *)

get_hardware_version(sd) == Put(sd, "HWvn", "HWvn")
get_serial_number(sd) == Put(sd, "serNo", "serNo")

\* int.from_bytes(input_bytes, byteorder='big') of two bytes
read_nORD_be(b) == b[1] * 256 + b[2]

\* The float (-1)**sign * (1 + fraction/2**23) * 2**(exponent - 127) of the four
\* bytes taken in reverse order, as the integer it truncates to (the frames of the
\* model carry whole numbers; 0.0 decodes to 2**-127).
read_IEEE754(b) ==
    LET r == <<b[4], b[3], b[2], b[1]>>
        sign == r[1] \div 128
        exponent == (r[1] % 128) * 2 + r[2] \div 128
        fraction == (r[2] % 128) * 65536 + r[3] * 256 + r[4]
        k == exponent - 127
        magnitude == IF k < 0 THEN 0
                     ELSE IF k <= 23 THEN (8388608 + fraction) \div (2 ^ (23 - k))
                     ELSE (8388608 + fraction) * (2 ^ (k - 23))
    IN  IF sign = 1 THEN 0 - magnitude ELSE magnitude

\* out = out[5:]
HeaderLen == 5

\* The k-th matrix entry starting right after the header, at out[k*4]
MatrixOffset_at_header(k) == k * 4

\* out[k*4+4 : k*4+8]: where the k-th matrix entry starts in out
MatrixOffset(k) == k * 4 + 4

get_factory_calibration(sd, response) ==
    LET out == PySlice(response, HeaderLen, Len(response))
        v1 == PyAt(out, 1)
        v2 == read_nORD_be(PySlice(out, 2, 4))
        v3 == PyAt(out, 40)
        matrix == [i \in 1..3 |-> [j \in 1..3 |->
                     LET k == (i - 1) * 3 + (j - 1)
                     IN  read_IEEE754(PySlice(out, MatrixOffset(k), MatrixOffset(k) + 4))]]
    IN  Put(sd, "calibration",
            [matrix |-> matrix, v1 |-> v1, v2 |-> v2, v3 |-> v3, ccmat |-> I3])

\* The ambient exchange without storing its result
get_amb_measure_not_stored(sd) == sd

get_amb_measure(sd) == Put(sd, "amb", <<0, 0, 0, 0>>)

setup_measurement(sd, out) ==
    Put(sd, "settUp", [s1 |-> out.s1, s2 |-> out.s2, s3 |-> out.s3])

\* The transfers of initialize(), in order; the setup command carries v1.
InitTransfers(v1) ==
    << control_transfer(2, 1, 0, 1),
       control_transfer(2, 1, 0, 129),
       Wake,
       bulk_transfer(<<217, 66, 51, 0, 0>>, 28),
       bulk_transfer(<<194, 92, 55, 0, 0>>, 42),
       bulk_transfer(<<203, 5, 115, 0, 1, 0>>, 47),
       bulk_transfer(<<212, 161, 197, 0, 2, 101, 16>>, 11),
       bulk_transfer(<<195, 41, 39, 0, 1, v1>>, 15) >>

NInitSteps == 8

\* env.found: usb.core.find found the device; env.failAt: the transfer of
\* InitTransfers that raises USBError (0: none); env.cal, env.setup: the frames.
\* An input the call does not read (a frame of an exchange that is never reached)
\* is fixed, so that each outcome is drawn once.
NoFrame == <<>>

InitEnv ==
    {[found |-> FALSE, failAt |-> 0, cal |-> NoFrame, setup |-> NoFrame]}
    \cup {[found |-> TRUE, failAt |-> k, cal |-> NoFrame, setup |-> NoFrame] : k \in 1..6}
    \cup {[found |-> TRUE, failAt |-> k, cal |-> c, setup |-> NoFrame] :
              k \in 7..NInitSteps, c \in FactoryFrames}
    \cup {[found |-> TRUE, failAt |-> 0, cal |-> c, setup |-> u] :
              c \in FactoryFrames, u \in SetupFrames}

initialize(d, sd, env) ==
    IF ~env.found
    THEN [dev |-> None, sd |-> sd, io |-> <<>>, ret |-> Return("initialize", "False", <<>>)]
    ELSE LET done(k) == env.failAt = 0 \/ env.failAt > k
             sd4 == IF done(4) THEN get_hardware_version(sd) ELSE sd
             sd5 == IF done(5) THEN get_serial_number(sd4) ELSE sd4
             sd6 == IF done(6) THEN get_factory_calibration(sd5, env.cal) ELSE sd5
             sd7 == IF done(7) THEN get_amb_measure(sd6) ELSE sd6
             sd8 == IF done(8) THEN setup_measurement(sd7, env.setup) ELSE sd7
             sd9 == IF env.failAt = 0 THEN Put(sd8, "isOpen", TRUE) ELSE sd8
             sent == IF env.failAt = 0 THEN NInitSteps ELSE env.failAt
         IN  [dev |-> Device, sd |-> sd9,
              io |-> SubSeq(InitTransfers(Get(sd6, "calibration", [v1 |-> 0]).v1), 1, sent),
              ret |-> Return("initialize", IF env.failAt = 0 THEN "True" ELSE "False", <<>>)]

\* bytes([v2 >> 8, v2 & 0xFF, s1] + list(s2)) after the fixed prefix d2 3f b9 00 07
MeasureCmd(sd) ==
    <<210, 63, 185, 0, 7,
      sd["calibration"].v2 \div 256, sd["calibration"].v2 % 256, sd["settUp"].s1>>
    \o sd["settUp"].s2

\* The subtraction carried out in unsigned 16-bit arithmetic
Sub3_uint16(a, b) ==
    <<(a[1] - b[1]) % 65536, (a[2] - b[2]) % 65536, (a[3] - b[3]) % 65536>>

Sub3(a, b) == <<a[1] - b[1], a[2] - b[2], a[3] - b[3]>>

\* raw[:3] - bcal, the s3 baseline not subtracted
Adjusted_without_s3(raw, sd) == Sub3(raw, sd["bcal"])

\* raw[:3] - np.array(s3[:3]) - bcal, in numpy's int64
Adjusted(raw, sd) == Sub3(Sub3(raw, sd["settUp"].s3), sd["bcal"])

\* The measurement command exchange without the wake control transfer before it
Acquisition_no_wake(sd) == <<bulk_transfer(MeasureCmd(sd), 13)>>

\* The wake control transfer, then the measurement command exchange
Acquisition(sd) == <<Wake, bulk_transfer(MeasureCmd(sd), 13)>>

\* np.dot(v, m): row vector times matrix
Dot(v, m) == [j \in 1..3 |-> v[1] * m[1][j] + v[2] * m[2][j] + v[3] * m[3][j]]

\* env.failAt: 0 none, 1 the wake control transfer raises, 2 the bulk exchange raises
AcqEnv ==
    {[failAt |-> k, raw |-> NoFrame] : k \in 1..2}
    \cup {[failAt |-> 0, raw |-> f] : f \in RawFrames}
NoInit == [found |-> FALSE, failAt |-> 0, cal |-> NoFrame, setup |-> NoFrame]
CalEnv(isOpen) ==
    {[init |-> i, failAt |-> a.failAt, raw |-> a.raw] :
        i \in IF isOpen THEN {NoInit} ELSE InitEnv, a \in AcqEnv}

calibrate(d, sd, env) ==
    LET i == IF ~Get(sd, "isOpen", FALSE)
             THEN initialize(d, sd, env.init)
             ELSE [dev |-> d, sd |-> sd, io |-> <<>>]
    IN  IF i.dev = None
        THEN [dev |-> i.dev, sd |-> i.sd, io |-> i.io, ret |-> Raise("calibrate", AttributeError)]
        ELSE IF env.failAt = 1
        THEN [dev |-> i.dev, sd |-> i.sd, io |-> Append(i.io, Wake),
              ret |-> Raise("calibrate", USBError)]
        ELSE IF "calibration" \notin DOMAIN i.sd \/ "settUp" \notin DOMAIN i.sd
        THEN [dev |-> i.dev, sd |-> i.sd, io |-> Append(i.io, Wake),
              ret |-> Raise("calibrate", KeyError)]
        ELSE IF env.failAt = 2
        THEN [dev |-> i.dev, sd |-> i.sd,
              io |-> i.io \o Acquisition(i.sd),
              ret |-> Raise("calibrate", USBError)]
        ELSE [dev |-> i.dev,
              sd |-> Put(Put(i.sd, "bcal", Sub3(env.raw, i.sd["settUp"].s3)),
                         "isBlackCal", TRUE),
              io |-> i.io \o Acquisition(i.sd),
              ret |-> [Return("calibrate", "None", <<>>) EXCEPT !.raw = env.raw]]

\* measure() that also stores the frame it read as the new black level
measure_rezeroes(d, sd, env) ==
    IF ~Get(sd, "isOpen", FALSE)
    THEN [dev |-> d, sd |-> sd, io |-> <<>>, ret |-> Raise("measure", NotInitialized)]
    ELSE IF ~Get(sd, "isBlackCal", FALSE)
    THEN [dev |-> d, sd |-> sd, io |-> <<>>, ret |-> Raise("measure", NotCalibrated)]
    ELSE IF d = None
    THEN [dev |-> d, sd |-> sd, io |-> <<>>, ret |-> Raise("measure", AttributeError)]
    ELSE IF env.failAt = 1
    THEN [dev |-> d, sd |-> sd, io |-> <<Wake>>, ret |-> Raise("measure", USBError)]
    ELSE IF env.failAt = 2
    THEN [dev |-> d, sd |-> sd, io |-> Acquisition(sd), ret |-> Raise("measure", USBError)]
    ELSE LET adjusted == Adjusted(env.raw, sd)
         IN  [dev |-> d, sd |-> Put(sd, "bcal", Sub3(env.raw, sd["settUp"].s3)),
              io |-> Acquisition(sd),
              ret |-> [Return("measure", "XYZ", Dot(adjusted, sd["calibration"].matrix))
                           EXCEPT !.raw = env.raw, !.adj = adjusted]]

\* measure() with its two guards in the other order
measure_guards_swapped(d, sd, env) ==
    IF ~Get(sd, "isBlackCal", FALSE)
    THEN [dev |-> d, sd |-> sd, io |-> <<>>, ret |-> Raise("measure", NotCalibrated)]
    ELSE IF ~Get(sd, "isOpen", FALSE)
    THEN [dev |-> d, sd |-> sd, io |-> <<>>, ret |-> Raise("measure", NotInitialized)]
    ELSE [dev |-> d, sd |-> sd, io |-> <<Wake>>, ret |-> Raise("measure", USBError)]

measure(d, sd, env) ==
    IF ~Get(sd, "isOpen", FALSE)
    THEN [dev |-> d, sd |-> sd, io |-> <<>>, ret |-> Raise("measure", NotInitialized)]
    ELSE IF ~Get(sd, "isBlackCal", FALSE)
    THEN [dev |-> d, sd |-> sd, io |-> <<>>, ret |-> Raise("measure", NotCalibrated)]
    ELSE IF d = None
    THEN [dev |-> d, sd |-> sd, io |-> <<>>, ret |-> Raise("measure", AttributeError)]
    ELSE IF env.failAt = 1
    THEN [dev |-> d, sd |-> sd, io |-> <<Wake>>, ret |-> Raise("measure", USBError)]
    ELSE IF env.failAt = 2
    THEN [dev |-> d, sd |-> sd, io |-> Acquisition(sd), ret |-> Raise("measure", USBError)]
    ELSE LET adjusted == Adjusted(env.raw, sd)
         IN  [dev |-> d, sd |-> sd, io |-> Acquisition(sd),
              ret |-> [Return("measure", "XYZ", Dot(adjusted, sd["calibration"].matrix))
                           EXCEPT !.raw = env.raw, !.adj = adjusted]]

\* close() that releases the device and leaves isOpen as it was
close_keeps_open(d, sd) ==
    [dev |-> d, sd |-> sd,
     io |-> IF d # None THEN <<dispose_resources>> ELSE <<>>,
     ret |-> Return("close", "None", <<>>)]

close(d, sd) ==
    [dev |-> d, sd |-> Put(sd, "isOpen", FALSE),
     io |-> IF d # None THEN <<dispose_resources>> ELSE <<>>,
     ret |-> Return("close", "None", <<>>)]

IsOpen(sd) == Get(sd, "isOpen", FALSE)
IsBlackCal(sd) == Get(sd, "isBlackCal", FALSE)

----------------------------------------------------------------------------
(* One call on the session: r is what the method computed from the state *)

Call(r) ==
    /\ dev' = r.dev
    /\ spyderData' = r.sd
    /\ io' = r.io
    /\ ret' = r.ret
    /\ prev' = ret
    /\ calibrateCalled' = (calibrateCalled \/ r.ret.op = "calibrate")
    /\ afterClose' = (r.ret.op = "close" \/ (afterClose /\ r.ret.op = "measure"))
    /\ sessionCal' =
          IF r.ret.op = "close" THEN FALSE
          ELSE IF r.ret.op = "initialize" THEN (sessionCal /\ r.ret.val # "True")
          ELSE IF r.ret.op = "calibrate"
               THEN IF r.ret.exc = "none" THEN TRUE
                    ELSE (sessionCal /\ (IsOpen(spyderData) \/ ~IsOpen(r.sd)))
          ELSE sessionCal
    /\ blackRef' =
          IF r.ret.op = "calibrate" /\ r.ret.exc = "none"
          THEN [raw |-> r.ret.raw, s3 |-> r.sd["settUp"].s3]
          ELSE blackRef

SessionInit ==
    /\ dev = None
    /\ spyderData = EmptyDict
    /\ io = <<>>
    /\ ret = Return("__init__", "None", <<>>)
    /\ prev = Return("__init__", "None", <<>>)
    /\ calibrateCalled = FALSE
    /\ afterClose = FALSE
    /\ sessionCal = FALSE
    /\ blackRef = [raw |-> <<>>, s3 |-> <<>>]

Init ==
    /\ SessionInit
    /\ pc = "idle"
    /\ resolution = 2
    /\ rgb = <<0, 0, 0>>
    /\ lut = EmptyDict
    /\ current_color = 0
    /\ screen = <<255, 255, 255>>
    /\ events = FALSE
    /\ quitAt = -1
    /\ quitPc = ""
    /\ measureCalls = 0
    /\ result = [how |-> "running", value |-> <<>>]
    /\ saved = <<>>
    /\ black = 15
    /\ ready = FALSE
    /\ calibrateCalls = 0

(* Any caller of the class: the four public methods, in any order *)

Initialize ==
    /\ \E env \in InitEnv : Call(initialize(dev, spyderData, env))
    /\ UNCHANGED driverVars

Calibrate ==
    /\ \E env \in CalEnv(IsOpen(spyderData)) : Call(calibrate(dev, spyderData, env))
    /\ UNCHANGED driverVars

Measure ==
    /\ \E env \in AcqEnv : Call(measure(dev, spyderData, env))
    /\ UNCHANGED driverVars

Close ==
    /\ Call(close(dev, spyderData))
    /\ UNCHANGED driverVars

Next == Initialize \/ Calibrate \/ Measure \/ Close

Spec == Init /\ [][Next]_vars

----------------------------------------------------------------------------
(* generate_lut.py *)

BlackLevels == {15, 25}

\* np.dot(xyz_to_lms_matrix, xyz), in units of 1e-4
xyz_to_lms(xyz) ==
    << 4002 * xyz[1] + 7076 * xyz[2] - 808 * xyz[3],
       -2263 * xyz[1] + 11653 * xyz[2] + 457 * xyz[3],
       9182 * xyz[3] >>

\* int(index * 255 / (resolution - 1))
To255(index, res) == (index * 255) \div (res - 1)

\* for r in range(resolution): for g in ...: for b in ...: the triple after t
NextTriple(t, res) ==
    IF t[3] + 1 < res THEN <<t[1], t[2], t[3] + 1>>
    ELSE IF t[2] + 1 < res THEN <<t[1], t[2] + 1, 0>>
    ELSE <<t[1] + 1, 0, 0>>

LoopDone(t, res) == t[1] >= res

\* The counts the sensor reads from the screen: its dark counts plus the colour shown.
Sensor == <<black + screen[1], black + screen[2], black + screen[3], 0>>

Running == pc \in {"start", "wait", "calibrate", "show", "measure", "poll"}

InitLut ==
    /\ SessionInit
    /\ pc = "start"
    /\ resolution \in 2..MaxRes
    /\ rgb = <<0, 0, 0>>
    /\ lut = EmptyDict
    /\ current_color = 0
    /\ screen = <<255, 255, 255>>
    /\ events = FALSE
    /\ quitAt = -1
    /\ quitPc = ""
    /\ measureCalls = 0
    /\ result = [how |-> "running", value |-> <<>>]
    /\ saved = <<>>
    /\ black \in BlackLevels
    /\ ready = FALSE
    /\ calibrateCalls = 0

\* The operator closes the window: a QUIT event is queued (environment).
RaiseQuit ==
    /\ Running
    /\ quitAt = -1
    /\ events' = TRUE
    /\ quitAt' = Cardinality(DOMAIN lut)
    /\ quitPc' = pc
    /\ UNCHANGED <<sessionVars, pc, resolution, rgb, lut, current_color, screen,
                   measureCalls, result, saved, black, ready, calibrateCalls>>

\* generate_lut calling calibrate() where it calls initialize(), before the prompt
Start_calibrates ==
    /\ pc = "start"
    /\ \E ienv \in InitEnv :
          Call(calibrate(dev, spyderData,
                         [init |-> ienv, failAt |-> 0, raw |-> <<black, black, black, 0>>]))
    /\ pc' = "wait"
    /\ calibrateCalls' = calibrateCalls + 1
    /\ UNCHANGED <<resolution, rgb, lut, current_color, screen, events, quitAt,
                   quitPc, measureCalls, result, saved, black, ready>>

\* generate_lut, lines 37-42
Start ==
    /\ pc = "start"
    /\ \E env \in InitEnv : Call(initialize(dev, spyderData, env))
    /\ pc' = "wait"
    /\ UNCHANGED <<resolution, rgb, lut, current_color, screen, events, quitAt,
                   quitPc, measureCalls, result, saved, black, ready, calibrateCalls>>

\* wait_for_enter returns False on a QUIT event: lines 44-46
WaitQuit ==
    /\ pc = "wait"
    /\ events
    /\ Call(close(dev, spyderData))
    /\ events' = FALSE
    /\ result' = [how |-> "declined", value |-> <<>>]
    /\ pc' = "returned"
    /\ UNCHANGED <<resolution, rgb, lut, current_color, screen, quitAt,
                   quitPc, measureCalls, saved, black, ready, calibrateCalls>>

\* wait_for_enter returns True on Return or a mouse click
WaitReady ==
    /\ pc = "wait"
    /\ ~events
    /\ pc' = "calibrate"
    /\ ready' = TRUE
    /\ UNCHANGED <<sessionVars, resolution, rgb, lut, current_color, screen, events,
                   quitAt, quitPc, measureCalls, result, saved, black, calibrateCalls>>

\* lines 48-51: black screen, calibrate(); an exception leaves generate_lut and main
BlackCalibrate ==
    /\ pc = "calibrate"
    /\ \E ienv \in (IF IsOpen(spyderData) THEN {NoInit} ELSE InitEnv), f \in 0..2 :
          LET r == calibrate(dev, spyderData,
                             [init |-> ienv, failAt |-> f, raw |-> <<black, black, black, 0>>])
          IN  /\ Call(r)
              /\ pc' = IF r.ret.exc = "none" THEN "show" ELSE "crashed"
    /\ calibrateCalls' = calibrateCalls + 1
    /\ screen' = <<0, 0, 0>>
    /\ rgb' = <<0, 0, 0>>
    /\ UNCHANGED <<resolution, lut, current_color, events, quitAt, quitPc, measureCalls,
                   result, saved, black, ready>>

\* lines 57-66
ShowColor ==
    /\ pc = "show"
    /\ screen' = <<To255(rgb[1], resolution), To255(rgb[2], resolution),
                   To255(rgb[3], resolution)>>
    /\ pc' = "measure"
    /\ UNCHANGED <<sessionVars, resolution, rgb, lut, current_color, events, quitAt,
                   quitPc, measureCalls, result, saved, black, ready, calibrateCalls>>

\* lut[(r, g, 0)] = lms in place of lut[(r, g, b)] = lms
Store_drops_b(l, key, lms) == Put(l, <<key[1], key[2], 0>>, lms)

\* line 73
Store(l, key, lms) == Put(l, key, lms)

\* lines 69-77
MeasureSample ==
    /\ pc = "measure"
    /\ \E f \in 0..2 :
          LET r == measure(dev, spyderData, [failAt |-> f, raw |-> Sensor])
          IN  /\ Call(r)
              /\ IF r.ret.exc = "none"
                 THEN /\ lut' = Store(lut, rgb, xyz_to_lms(r.ret.xyz))
                      /\ current_color' = current_color + 1
                      /\ pc' = "poll"
                 ELSE /\ pc' = "crashed"
                      /\ UNCHANGED <<lut, current_color>>
    /\ measureCalls' = measureCalls + 1
    /\ UNCHANGED <<resolution, rgb, screen, events, quitAt, quitPc, result, saved, black, ready, calibrateCalls>>

\* lines 80-84, then the next iteration or lines 86-88
PollEvents ==
    /\ pc = "poll"
    /\ events' = FALSE
    /\ IF events
       THEN /\ Call(close(dev, spyderData))
            /\ result' = [how |-> "cancelled", value |-> <<lut>>]
            /\ pc' = "returned"
            /\ UNCHANGED rgb
       ELSE IF LoopDone(NextTriple(rgb, resolution), resolution)
       THEN /\ Call(close(dev, spyderData))
            /\ result' = [how |-> "completed", value |-> <<lut>>]
            /\ pc' = "returned"
            /\ rgb' = NextTriple(rgb, resolution)
       ELSE /\ rgb' = NextTriple(rgb, resolution)
            /\ pc' = "show"
            /\ UNCHANGED <<sessionVars, result>>
    /\ UNCHANGED <<resolution, lut, current_color, screen, quitAt, quitPc, measureCalls,
                   saved, black, ready, calibrateCalls>>

\* main, lines 110-112: `if lut:` is false for None and for an empty dict
Truthy(v) == Len(v) = 1 /\ DOMAIN v[1] # {}

Main ==
    /\ pc = "returned"
    /\ saved' = IF Truthy(result.value) THEN result.value ELSE saved
    /\ pc' = "exit"
    /\ UNCHANGED <<sessionVars, resolution, rgb, lut, current_color, screen, events,
                   quitAt, quitPc, measureCalls, result, black, ready, calibrateCalls>>

NextLut ==
    \/ RaiseQuit
    \/ Start
    \/ WaitQuit
    \/ WaitReady
    \/ BlackCalibrate
    \/ ShowColor
    \/ MeasureSample
    \/ PollEvents
    \/ Main

SpecLut == InitLut /\ [][NextLut]_vars

----------------------------------------------------------------------------
(* Claims about the session (checked under Spec) *)

IsFactoryOrSetup(t) == t.kind = "bulk" /\ t.data[1] \in {203, 195}

\* C1: in the state right after any close() call, isOpen and isBlackCal are
\* both false, whatever calls preceded it.
C1_CloseClearsBothFlags ==
    ret.op = "close" => (~IsOpen(spyderData) /\ ~IsBlackCal(spyderData))

\* C2: a measure() call returns a value only if a calibrate() call has
\* completed after the most recent successful initialize() and with no
\* close() in between.
C2_MeasureNeedsCalibrationOfThisSession ==
    (ret.op = "measure" /\ ret.exc = "none") => sessionCal

\* C3 as stated: after any sequence of operations with no calibrate() call,
\* measure() raises the not-calibrated error.
C3_MeasureBeforeCalibrateIsNotCalibrated ==
    (ret.op = "measure" /\ ~calibrateCalled) => ret.exc = NotCalibrated

\* C3 as amended: after any sequence of operations with no calibrate() call,
\* measure() returns no value; it raises the not-calibrated error when the
\* session is open and the not-initialized error when it is not.
C3_MeasureBeforeCalibrateFails ==
    (ret.op = "measure" /\ ~calibrateCalled) =>
        /\ ret.val = "none"
        /\ ret.exc = IF IsOpen(spyderData) THEN NotCalibrated ELSE NotInitialized

C3_Witness ==
    /\ ret.op = "measure" /\ ~calibrateCalled
    /\ IsOpen(spyderData) /\ ret.exc = NotCalibrated

\* C4: measure() after close(), with no initialize() or calibrate() in
\* between, raises the not-initialized error and issues no USB transfer,
\* whatever the state before close() was.
C4_MeasureAfterCloseNotInitialized ==
    (ret.op = "measure" /\ afterClose) => (ret.exc = NotInitialized /\ io = <<>>)

\* close() was called on a black-calibrated session, then measure()
C4_Witness ==
    /\ ret.op = "measure" /\ afterClose /\ prev.op = "close"
    /\ IsBlackCal(spyderData) /\ dev = Device

\* C8: after an initialize() that returns failure the session is not open, and
\* a measure() that follows it raises the not-initialized error; also when the
\* session had been opened by an earlier initialize().
C8_FailedInitializeNotOpen ==
    /\ (ret.op = "initialize" /\ ret.val = "False") => ~IsOpen(spyderData)
    /\ (prev.op = "initialize" /\ prev.val = "False" /\ ret.op = "measure")
          => ret.exc = NotInitialized

\* C9: whenever calibrate() completes and sets isBlackCal, isOpen is true in
\* the same state, also when the implicit initialize() failed.
C9_BlackCalibratedOnlyWhenOpen ==
    (ret.op = "calibrate" /\ ret.exc = "none") =>
        (IsBlackCal(spyderData) /\ IsOpen(spyderData))

\* C10: while a session is open, no operation other than close() issues the
\* factory-calibration or setup command again or changes the calibration
\* constants or the setup data.
C10_ConstantsReadOncePerSession ==
    [][(IsOpen(spyderData) /\ ret'.op # "close") =>
          /\ spyderData'["calibration"] = spyderData["calibration"]
          /\ spyderData'["settUp"] = spyderData["settUp"]
          /\ \A n \in 1..Len(io') : ~IsFactoryOrSetup(io'[n])]_vars

----------------------------------------------------------------------------
(* Claims about the scan (checked under SpecLut) *)

Grid(res) == (0..(res - 1)) \X (0..(res - 1)) \X (0..(res - 1))

Returned == Len(result.value) = 1
Entries == DOMAIN result.value[1]

\* C5: for every resolution >= 2, a scan that runs to its end (neither
\* cancelled nor stopped by a device failure) returns a LUT with exactly
\* resolution^3 entries, one per grid triple, each key channel in
\* [0, resolution-1], after exactly resolution^3 calls of measure().
C5_CompleteScanFillsGrid ==
    result.how = "completed" =>
        /\ Returned
        /\ Entries = Grid(resolution)
        /\ Cardinality(Entries) = resolution * resolution * resolution
        /\ \A k \in Entries : Len(result.value[1][k]) = 3
        /\ measureCalls = resolution * resolution * resolution

C5_Witness ==
    /\ result.how = "completed" /\ resolution > 2 /\ pc = "exit"
    /\ saved = result.value

\* C6: when QUIT is raised in the scan after N samples have been stored and
\* before sample N+1 is stored (N >= 1: mid-scan), the scan is cancelled with
\* measure() called no further time and the returned LUT holds exactly those
\* N entries.
C6_CancelYieldsExactlyN ==
    (result.how = "cancelled" /\ quitPc \in {"show", "measure", "poll"} /\ quitAt >= 1) =>
        /\ Returned
        /\ Cardinality(Entries) = quitAt
        /\ measureCalls = quitAt

\* C7: when measure() raises at sample k of a scan with samples already
\* stored, generate_lut still returns the entries accumulated so far and
\* main() passes them to save_lut.
C7_FailureKeepsPartialLut ==
    (pc = "crashed" /\ ret.op = "measure" /\ current_color >= 1) =>
        /\ Returned
        /\ Entries = DOMAIN lut
        /\ saved = <<lut>>

\* C11: in every run of generate_lut, calibrate() is called at most once, only
\* after the operator's ready signal and before the first measure(); when the
\* operator quits instead of confirming, calibrate() and measure() are never
\* called and None is returned.
C11_CalibrateOnceAfterReady ==
    /\ calibrateCalls <= 1
    /\ calibrateCalls = 1 => ready
    /\ measureCalls > 0 => calibrateCalls = 1
    /\ result.how = "declined" =>
          (calibrateCalls = 0 /\ measureCalls = 0 /\ result.value = <<>> /\ ~calibrateCalled)

C11_Witness ==
    calibrateCalls = 1 /\ ready /\ measureCalls = 2 /\ ret.op = "measure"

RoundNearest(n, d) ==
    LET q == n \div d
        r == n % d
    IN  IF 2 * r < d THEN q
        ELSE IF 2 * r > d THEN q + 1
        ELSE IF q % 2 = 0 THEN q ELSE q + 1

\* C12: for every resolution >= 2 and every grid index in 0..resolution-1, the
\* 8-bit channel value sent to the display is index * 255 / (resolution - 1)
\* rounded to the nearest integer (index 0 gives 0, index resolution-1 gives 255).
C12_ChannelIsRounded ==
    pc = "measure" =>
        \A i \in 1..3 : screen[i] = RoundNearest(rgb[i] * 255, resolution - 1)

\* C13: a measure() that returns a value computes adjusted[i] = raw[i] - s3[i]
\* - bcal[i] for the first three channels in signed integers, without unsigned
\* wrap-around, leaves the 4th raw channel out, and returns adjusted times the
\* calibration matrix; raw (100,200,150,0) with s3 (10,20,15) and bcal (5,5,5)
\* gives (85,175,130).
C13_AdjustedIsSignedDifference ==
    (ret.op = "measure" /\ ret.exc = "none") =>
        /\ Len(ret.raw) = 4
        /\ Len(ret.adj) = 3
        /\ \A i \in 1..3 :
              ret.adj[i] = ret.raw[i] - spyderData["settUp"].s3[i] - spyderData["bcal"][i]
        /\ ret.xyz = Dot(ret.adj, spyderData["calibration"].matrix)
        /\ (/\ ret.raw = <<100, 200, 150, 0>>
            /\ SubSeq(spyderData["settUp"].s3, 1, 3) = <<10, 20, 15>>
            /\ spyderData["bcal"] = <<5, 5, 5>>) => ret.adj = <<85, 175, 130>>

C13_Witness ==
    /\ ret.op = "measure"
    /\ ret.exc = "none"
    /\ ret.raw = <<100, 200, 150, 0>>
    /\ SubSeq(spyderData["settUp"].s3, 1, 3) = <<10, 20, 15>>
    /\ spyderData["bcal"] = <<5, 5, 5>>
    /\ ret.adj = <<85, 175, 130>>

SameFields(sd1, sd2) ==
    /\ \A k \in DOMAIN sd1 : k \in DOMAIN sd2 /\ sd2[k] = sd1[k]
    /\ \A k \in DOMAIN sd2 \ DOMAIN sd1 : k = "isOpen" /\ sd2[k] = FALSE

\* C14: close() on a session that was just closed is a no-op: it performs no
\* USB resource release and leaves every session field as it was.
C14_SecondCloseIsNoOp ==
    [][(ret.op = "close" /\ ~IsOpen(spyderData) /\ ret'.op = "close")
          => (io' = <<>> /\ dev' = dev /\ SameFields(spyderData, spyderData'))]_vars

IsMeasureCmd(t) == t.kind = "bulk" /\ t.data[1] = 210 /\ t.size = 13

IsCtrl(t, a, b, c, e) == t = [kind |-> "ctrl", data |-> <<a, b, c, e>>, size |-> 0]

\* C15: each measurement command exchange (opcode 0xd2, 13-byte read), from
\* calibrate() or from measure(), is immediately preceded by the wake control
\* transfer (0x41, 2, 2, 0); and no command exchange of initialize() is sent
\* before its three control transfers, in order.
C15_EveryAcquisitionIsPrimed ==
    \A n \in 1..Len(io) :
        /\ IsMeasureCmd(io[n]) => (n > 1 /\ IsCtrl(io[n - 1], 65, 2, 2, 0))
        /\ (io[n].kind = "bulk" /\ ~IsMeasureCmd(io[n])) =>
              /\ n >= 4
              /\ IsCtrl(io[1], 2, 1, 0, 1)
              /\ IsCtrl(io[2], 2, 1, 0, 129)
              /\ IsCtrl(io[3], 65, 2, 2, 0)

C15_Witness ==
    /\ ret.op = "calibrate"
    /\ ret.exc = "none"
    /\ Len(io) = 10
    /\ IsMeasureCmd(io[10])
    /\ IsCtrl(io[9], 65, 2, 2, 0)

\* Response bytes first .. first+3, counted from 0
Bytes4(f, first) == <<f[first + 1], f[first + 2], f[first + 3], f[first + 4]>>

\* The stored calibration is the parse of frame f with v1 at response byte 6,
\* v2 at bytes 7..8, v3 at byte 45 and the k-th matrix entry (row-major) at
\* the four bytes from start + 4k on.
ParsedFrom(cal, f, start) ==
    /\ Len(f) = 47
    /\ cal.v1 = f[6 + 1]
    /\ cal.v2 = f[7 + 1] * 256 + f[8 + 1]
    /\ cal.v3 = f[45 + 1]
    /\ \A i \in 1..3 : \A j \in 1..3 :
          cal.matrix[i][j] = read_IEEE754(Bytes4(f, start + 4 * ((i - 1) * 3 + (j - 1))))

SliceBytes(start, k) == (start + 4 * k) .. (start + 4 * k + 3)

NoOverlap(start) ==
    /\ \A k \in 0..8 : \A l \in 0..8 :
          k # l => SliceBytes(start, k) \cap SliceBytes(start, l) = {}
    /\ \A k \in 0..8 : SliceBytes(start, k) \cap {6, 7, 8, 45} = {}

\* C16 as stated: the nine matrix entries are read row-major from consecutive
\* 4-byte slices starting immediately after the 5-byte header (first slice
\* response bytes 5..8), none overlapping the bytes of v1, v2 or v3.
C16_MatrixStartsAtHeaderEnd ==
    "calibration" \in DOMAIN spyderData =>
        /\ \E f \in FactoryFrames : ParsedFrom(spyderData["calibration"], f, 5)
        /\ NoOverlap(5)

\* C16, amended: the nine matrix entries are read row-major from consecutive,
\* non-overlapping 4-byte slices starting four bytes after the 5-byte header
\* (first slice response bytes 9..12, last 41..44), none overlapping the bytes
\* of v1 (6), v2 (7..8) or v3 (45).
C16_MatrixStartsFourAfterHeader ==
    "calibration" \in DOMAIN spyderData =>
        /\ \E f \in FactoryFrames : ParsedFrom(spyderData["calibration"], f, 9)
        /\ NoOverlap(9)

C16_Witness ==
    /\ ret.op = "initialize"
    /\ ret.val = "True"
    /\ "calibration" \in DOMAIN spyderData
    /\ spyderData["calibration"].matrix = <<<<2, 0, 0>>, <<1, 1, 0>>, <<0, 0, 4>>>>
    /\ spyderData["calibration"].v2 = 513

\* C17: measure() is read-only on the session: whether it returns a value or
\* fails, it leaves the device handle and every session field (isOpen,
\* isBlackCal, bcal, calibration, setup data) exactly as they were.
C17_MeasureIsReadOnly ==
    [][ret'.op = "measure" => (spyderData' = spyderData /\ dev' = dev)]_vars

C17_Witness ==
    /\ ret.op = "measure" /\ ret.exc = "none"
    /\ prev.op = "measure" /\ prev.exc = "none"
    /\ IsOpen(spyderData) /\ IsBlackCal(spyderData)
    /\ ret.raw # prev.raw

\* C18: in every reachable session state, isOpen true implies that the
\* hardware version, serial number, calibration constants, ambient measurement
\* and setup data are stored, and isBlackCal true implies that bcal is stored.
C18_FlagsImplyStoredFields ==
    /\ IsOpen(spyderData) =>
          {"HWvn", "serNo", "calibration", "amb", "settUp"} \subseteq DOMAIN spyderData
    /\ IsBlackCal(spyderData) => "bcal" \in DOMAIN spyderData

C18_Witness ==
    /\ IsOpen(spyderData)
    /\ IsBlackCal(spyderData)
    /\ ret.op = "measure"
    /\ ret.exc = "none"
    /\ prev.op = "calibrate"

\* C19: whenever generate_lut has ended (scan completed, cancelled, ready
\* prompt declined, or an error raised out of calibrate() or measure()),
\* close() has been called on its session, so the session is not left open.
C19_EndedImpliesClosed ==
    pc \in {"returned", "exit", "crashed"} => ~IsOpen(spyderData)

\* C20: the s3 baseline cancels out: when the setup data is the one
\* calibrate() used, a measure() that returns a value has adjusted = raw -
\* blackRaw (blackRaw the frame calibrate() read) whatever s3 is, so a frame
\* whose first three counts equal the black frame's gives the zero vector.
C20_BaselineCancels ==
    (/\ ret.op = "measure"
     /\ ret.exc = "none"
     /\ spyderData["settUp"].s3 = blackRef.s3) =>
        /\ \A i \in 1..3 : ret.adj[i] = ret.raw[i] - blackRef.raw[i]
        /\ SubSeq(ret.raw, 1, 3) = SubSeq(blackRef.raw, 1, 3) => ret.adj = <<0, 0, 0>>

C20_Witness ==
    /\ ret.op = "measure"
    /\ ret.exc = "none"
    /\ spyderData["settUp"].s3 = blackRef.s3
    /\ blackRef.s3 = <<255, 255, 255, 255>>
    /\ ret.raw = blackRef.raw
    /\ ret.raw = <<0, 65535, 300, 7>>
    /\ ret.adj = <<0, 0, 0>>

====
